---- MODULE Spec2Model ----
(***************************************************************************)
(* Shelly dashboard panel (version 0.3.1): the panel element's load        *)
(* lifecycle and the row building of _loadData, with the primary-entity    *)
(* selector and the IP resolver.                                           *)
(*                                                                         *)
(* JavaScript strings are TLA+ strings; a character is a string of length  *)
(* one, read with SubSeq.  null and undefined are the value Null.  A field *)
(* that the code only tests for truthiness is "" when absent.              *)
(***************************************************************************)
EXTENDS Integers, Sequences, FiniteSets, TLC

VARIABLES
    devices,    \* host: reply of config/device_registry/list
    entities,   \* host: reply of config/entity_registry/list
    states,     \* host: the state map carried by a hass object
    hass,       \* this._hass
    data,       \* this._data
    loading,    \* this._loading
    error,      \* this._error
    sort,       \* this._sort
    inflight,   \* _loadData calls suspended at the await of Promise.all
    updates,    \* update.install service calls awaiting their reply
    reboots,    \* button.press service calls awaiting their reply
    timers      \* reload timers set by _handleFirmwareUpdate, not yet fired

vars == <<devices, entities, states, hass, data, loading, error, sort,
          inflight, updates, reboots, timers>>

host == <<devices, entities, states>>

----------------------------------------------------------------------------
(* Bounds *)

MaxDevices == 3     \* longest device registry reply drawn
MaxEnts    == 3     \* longest entity group drawn for one device
MaxLoads   == 2     \* most _loadData calls kept suspended at once
MaxCalls   == 1     \* most service calls of one kind awaiting a reply
MaxTimers  == 1     \* most reload timers pending at once

----------------------------------------------------------------------------
(* JavaScript values and strings *)

Null == "<null>"

JsBool(b) == IF b THEN "true" ELSE "false"

Or(a, b) == IF a # "" /\ a # Null THEN a ELSE b

CharAt(s, i) == SubSeq(s, i, i)

Digits == {"0", "1", "2", "3", "4", "5", "6", "7", "8", "9"}

UpperCase == "ABCDEFGHIJKLMNOPQRSTUVWXYZ"
LowerCase == "abcdefghijklmnopqrstuvwxyz"

LowerOf == [c \in {CharAt(UpperCase, i) : i \in 1..26} |->
                CharAt(LowerCase, CHOOSE i \in 1..26 : CharAt(UpperCase, i) = c)]

LowerChar(c) == IF c \in DOMAIN LowerOf THEN LowerOf[c] ELSE c

RECURSIVE toLowerCase(_)
toLowerCase(s) ==
    IF Len(s) = 0 THEN ""
    ELSE LowerChar(CharAt(s, 1)) \o toLowerCase(SubSeq(s, 2, Len(s)))

StartsWith(s, p) == Len(s) >= Len(p) /\ SubSeq(s, 1, Len(p)) = p

EndsWith(s, p) == Len(s) >= Len(p) /\ SubSeq(s, Len(s) - Len(p) + 1, Len(s)) = p

\* /<p>$/i for a literal, lower-case p
EndsWithI(s, p) ==
    Len(s) >= Len(p) /\ toLowerCase(SubSeq(s, Len(s) - Len(p) + 1, Len(s))) = p

AllDigits(s) == \A i \in 1..Len(s) : CharAt(s, i) \in Digits

\* first index of character c in s, 0 when there is none
IndexOf(s, c) ==
    IF \E i \in 1..Len(s) : CharAt(s, i) = c
    THEN CHOOSE i \in 1..Len(s) :
            CharAt(s, i) = c /\ \A j \in 1..(i - 1) : CharAt(s, j) # c
    ELSE 0

\* s.split(c)[0]
Before(s, c) == IF IndexOf(s, c) = 0 THEN s ELSE SubSeq(s, 1, IndexOf(s, c) - 1)

\* /^\d{1,3}\.\d{1,3}\.\d{1,3}\.\d{1,3}$/
IsGroup(s) == Len(s) \in 1..3 /\ AllDigits(s)

IPv4Shape(s) ==
    \E i, j, k \in 1..Len(s) :
        /\ i < j /\ j < k
        /\ CharAt(s, i) = "." /\ CharAt(s, j) = "." /\ CharAt(s, k) = "."
        /\ IsGroup(SubSeq(s, 1, i - 1))
        /\ IsGroup(SubSeq(s, i + 1, j - 1))
        /\ IsGroup(SubSeq(s, j + 1, k - 1))
        /\ IsGroup(SubSeq(s, k + 1, Len(s)))

\* /_\d+$/
ChannelSuffix(s) ==
    \E i \in 1..(Len(s) - 1) :
        CharAt(s, i) = "_" /\ AllDigits(SubSeq(s, i + 1, Len(s)))

\* /channel_\d+/
ChannelInfix(s) ==
    \E i \in 1..(Len(s) - 8) :
        SubSeq(s, i, i + 7) = "channel_" /\ CharAt(s, i + 8) \in Digits

----------------------------------------------------------------------------
(* new URL(s).hostname, for the URLs a device registry carries: an optional  *)
(* scheme, a host that is a name or a dotted quad of decimal numbers without  *)
(* leading zeros, an optional port and an optional path.  ok = FALSE is the   *)
(* TypeError the constructor throws.                                          *)

RECURSIVE NumVal(_)
NumVal(s) ==
    IF Len(s) = 0 THEN 0
    ELSE 10 * NumVal(SubSeq(s, 1, Len(s) - 1))
         + (CHOOSE n \in 0..9 : CharAt("0123456789", n + 1) = CharAt(s, Len(s)))

\* the four groups of a string of IPv4 shape are all at most 255
QuadInRange(s) ==
    LET a == Before(s, ".")
        r1 == SubSeq(s, Len(a) + 2, Len(s))
        b == Before(r1, ".")
        r2 == SubSeq(r1, Len(b) + 2, Len(r1))
        c == Before(r2, ".")
        d == SubSeq(r2, Len(c) + 2, Len(r2))
    IN  NumVal(a) <= 255 /\ NumVal(b) <= 255 /\ NumVal(c) <= 255 /\ NumVal(d) <= 255

SchemeChars == {CharAt(LowerCase, i) : i \in 1..26} \cup Digits \cup {"+", "-", "."}

\* the scheme of s, lower-cased, or "" when s does not start with one
SchemeOf(s) ==
    LET p == toLowerCase(Before(s, ":"))
    IN  IF /\ IndexOf(s, ":") > 1
           /\ CharAt(p, 1) \in {CharAt(LowerCase, i) : i \in 1..26}
           /\ \A i \in 1..Len(p) : CharAt(p, i) \in SchemeChars
        THEN p ELSE ""

ParseURL(s) ==
    LET scheme  == SchemeOf(s)
        rest    == SubSeq(s, Len(scheme) + 2, Len(s))
        special == scheme \in {"http", "https"}
        auth    == IF StartsWith(rest, "//")
                   THEN Before(SubSeq(rest, 3, Len(rest)), "/") ELSE ""
        name    == Before(auth, ":")
        h       == IF special THEN toLowerCase(name) ELSE name
    IN  IF scheme = "" THEN [ok |-> FALSE, hostname |-> ""]
        ELSE IF special /\ h = "" THEN [ok |-> FALSE, hostname |-> ""]
        ELSE IF special /\ IPv4Shape(h) /\ ~QuadInRange(h)
             THEN [ok |-> FALSE, hostname |-> ""]
        ELSE [ok |-> TRUE, hostname |-> h]

\* device.configuration_url.replace(/^https?:\/\//, '').replace(/\/$/, '')
Cleaned(s) ==
    LET a == IF StartsWith(s, "http://") THEN SubSeq(s, 8, Len(s))
             ELSE IF StartsWith(s, "https://") THEN SubSeq(s, 9, Len(s))
             ELSE s
    IN  IF EndsWith(a, "/") THEN SubSeq(a, 1, Len(a) - 1) ELSE a

\* mutant: localhost and 0.0.0.0 are taken for hosts like any other
ValidHost_anyHost(h) == h # ""

ValidHost(h) == h # "" /\ h # "localhost" /\ h # "0.0.0.0"

----------------------------------------------------------------------------
(* Entity groups and the state lookup *)

NoEntity == [entity_id |-> Null, device_id |-> Null, platform |-> "",
             entity_category |-> "", domain |-> Null]

\* stateFor(entity_id): the state string of the state object, Null for none
stateFor(S, id) == IF id \in DOMAIN S THEN S[id] ELSE Null

Range(seq) == {seq[i] : i \in 1..Len(seq)}

\* arr.find(e => e in S): the first element of arr that is in S, else none
Find(arr, S, none) ==
    IF \E i \in 1..Len(arr) : arr[i] \in S
    THEN arr[CHOOSE i \in 1..Len(arr) :
                arr[i] \in S /\ \A j \in 1..(i - 1) : arr[j] \notin S]
    ELSE none

\* the Map built by the grouping loop of _loadData
entitiesByDevice(ents) ==
    [k \in {ents[i].device_id : i \in 1..Len(ents)} |->
        SelectSeq(ents, LAMBDA e : e.device_id = k)]

\* mutant: the entities without device_id are in the group of every device
GroupOf_withOrphans(ents, id) ==
    SelectSeq(ents, LAMBDA e : e.device_id = id \/ e.device_id = Null)

\* entitiesByDevice.get(id) || []
GroupOf(ents, id) ==
    LET m == entitiesByDevice(ents)
    IN  IF id \in DOMAIN m THEN m[id] ELSE <<>>

----------------------------------------------------------------------------
(* _selectPrimaryEntity *)

priorityDomains == <<"light", "switch", "cover", "sensor", "binary_sensor">>

hasState(S, e) == stateFor(S, e.entity_id) # Null

noChannel(e) == ~ChannelSuffix(e.entity_id) /\ ~ChannelInfix(e.entity_id)

\* the loop over priorityDomains, from the k-th domain on
RECURSIVE selectByDomain(_, _, _)
selectByDomain(prim, S, k) ==
    IF k > Len(priorityDomains)
    THEN Find(prim, {e \in Range(prim) : hasState(S, e)},
              IF Len(prim) > 0 THEN prim[1] ELSE NoEntity)
    ELSE LET domain      == priorityDomains[k]
             withState   == SelectSeq(prim,
                                LAMBDA e : e.domain = domain /\ hasState(S, e))
             anyOfDomain == Find(prim, {e \in Range(prim) : e.domain = domain}, NoEntity)
         IN  IF Len(withState) > 0
             THEN Find(withState, {e \in Range(withState) : noChannel(e)}, withState[1])
             ELSE IF anyOfDomain # NoEntity THEN anyOfDomain
             ELSE selectByDomain(prim, S, k + 1)

\* mutant: the entities with an entity_category are not filtered out
selectPrimaryEntity_unfiltered(ents, S) ==
    IF Len(ents) = 0 THEN NoEntity ELSE selectByDomain(ents, S, 1)

\* mutant: no fallback to the unfiltered list
selectPrimaryEntity_noFallback(ents, S) ==
    LET primaryEntities == SelectSeq(ents, LAMBDA e : e.entity_category = "")
    IN  IF Len(primaryEntities) = 0 THEN NoEntity
        ELSE selectByDomain(primaryEntities, S, 1)

selectPrimaryEntity(ents, S) ==
    LET primaryEntities == SelectSeq(ents, LAMBDA e : e.entity_category = "")
    IN  IF Len(primaryEntities) = 0
        THEN (IF Len(ents) > 0 THEN ents[1] ELSE NoEntity)
        ELSE selectByDomain(primaryEntities, S, 1)

----------------------------------------------------------------------------
(* _extractIP *)

\* Method 1: the host of configuration_url, "" when the step yields nothing
hostOfConfigurationUrl(url) ==
    IF url = "" THEN ""
    ELSE LET u == ParseURL(url)
             hostname == Before(Before(Cleaned(url), "/"), ":")
         IN  IF u.ok
             THEN (IF ValidHost(u.hostname) THEN u.hostname ELSE "")
             ELSE (IF ValidHost(hostname) THEN hostname ELSE "")

\* the four ipPatterns, tested against the whole entity_id
ipPattern(k, id) ==
    CASE k = 1 -> EndsWithI(id, "wifi_ip") \/ EndsWithI(id, "wifiip")
      [] k = 2 -> EndsWithI(id, "ip_address") \/ EndsWithI(id, "ipaddress")
      [] k = 3 -> EndsWithI(id, "_ip")
      [] k = 4 -> toLowerCase(id) = "ip"

usable(st) == st # Null /\ st # "" /\ st # "unknown" /\ st # "unavailable"

\* Method 2: the loop over ipPatterns, from the k-th pattern on
RECURSIVE ipByPattern(_, _, _)
ipByPattern(ents, S, k) ==
    IF k > 4 THEN ""
    ELSE LET ipEnt == Find(ents,
                          {e \in Range(ents) :
                              ipPattern(k, e.entity_id) /\ e.domain = "sensor"},
                          NoEntity)
             st    == stateFor(S, ipEnt.entity_id)
         IN  IF ipEnt # NoEntity /\ usable(st) /\ IPv4Shape(st)
             THEN st
             ELSE ipByPattern(ents, S, k + 1)

\* mutant: Method 3 without the test of the state's shape
ipBySensorScan_anyState(ents, S) ==
    LET sensors == SelectSeq(ents, LAMBDA e : e.domain = "sensor")
        hit == Find(sensors,
                    {e \in Range(sensors) :
                        stateFor(S, e.entity_id) \notin {Null, ""}},
                    NoEntity)
    IN  IF hit = NoEntity THEN "" ELSE stateFor(S, hit.entity_id)

\* Method 3: the first sensor whose state has IPv4 shape
ipBySensorScan(ents, S) ==
    LET sensors == SelectSeq(ents, LAMBDA e : e.domain = "sensor")
        hit == Find(sensors,
                    {e \in Range(sensors) :
                        LET st == stateFor(S, e.entity_id)
                        IN  st # Null /\ st # "" /\ IPv4Shape(st)},
                    NoEntity)
    IN  IF hit = NoEntity THEN "" ELSE stateFor(S, hit.entity_id)

\* mutant: the sensor steps tried before the configuration_url step
extractIP_sensorsFirst(device, ents, S) ==
    LET m1 == hostOfConfigurationUrl(device.configuration_url)
        m2 == ipByPattern(ents, S, 1)
        m3 == ipBySensorScan(ents, S)
    IN  IF m2 # "" THEN m2
        ELSE IF m3 # "" THEN m3
        ELSE m1

extractIP(device, ents, S) ==
    LET m1 == hostOfConfigurationUrl(device.configuration_url)
        m2 == ipByPattern(ents, S, 1)
    IN  IF m1 # "" THEN m1
        ELSE IF m2 # "" THEN m2
        ELSE ipBySensorScan(ents, S)

----------------------------------------------------------------------------
(* _loadData: the family filter *)

isShellyIntegration(ents) == \E i \in 1..Len(ents) : ents[i].platform = "shelly"

\* mutant: the manufacturer compared without lower-casing
isShellyManufacturer_caseSensitive(d) == d.manufacturer = "shelly"

isShellyManufacturer(d) ==
    d.manufacturer # "" /\ toLowerCase(d.manufacturer) = "shelly"

isShelly(d, ents) ==
    isShellyIntegration(GroupOf(ents, d.id)) \/ isShellyManufacturer(d)

shellyDevices(devs, ents) == SelectSeq(devs, LAMBDA d : isShelly(d, ents))

----------------------------------------------------------------------------
(* _loadData: the field resolvers of one row *)

\* ents.find(e => e.domain === dom && /<suffix>$/i.test(e.entity_id))
fieldEntity(ents, dom, suffix) ==
    Find(ents, {e \in Range(ents) : e.domain = dom /\ EndsWithI(e.entity_id, suffix)},
         NoEntity)

macOf(d) ==
    LET macConn == Find(d.connections, {c \in Range(d.connections) : c[1] = "mac"}, <<>>)
    IN  IF macConn # <<>> THEN macConn[2] ELSE ""

cloudOf(ents, S) ==
    LET cloudEnt == fieldEntity(ents, "binary_sensor", "_cloud")
        st       == stateFor(S, cloudEnt.entity_id)
    IN  IF cloudEnt # NoEntity /\ st # Null THEN JsBool(st = "on") ELSE Null

\* temperature, rssi and uptime: [value, entity]
sensorField(ents, S, suffix) ==
    LET ent == fieldEntity(ents, "sensor", suffix)
        st  == stateFor(S, ent.entity_id)
    IN  IF ent # NoEntity /\ st # Null /\ st # "unknown" /\ st # "unavailable"
        THEN [value |-> st, entity |-> ent.entity_id]
        ELSE [value |-> Null, entity |-> Null]

fwUpdateAvailableOf(st) == st = "on"

\* mutant: the test of fwUpdateAvailable repeated for fwUpToDate
fwUpToDateOf_sameTest(st) == st = "on"

fwUpToDateOf(st) == st = "off"

firmwareOf(ents, S) ==
    LET updateEnt == fieldEntity(ents, "update", "_firmware_update")
        st        == stateFor(S, updateEnt.entity_id)
    IN  [fwUpdateEntity    |-> updateEnt.entity_id,
         fwUpToDate        |-> IF updateEnt # NoEntity /\ st # Null
                               THEN JsBool(fwUpToDateOf(st)) ELSE Null,
         fwUpdateAvailable |-> IF updateEnt # NoEntity /\ st # Null
                               THEN JsBool(fwUpdateAvailableOf(st)) ELSE "false"]

rebootOf(ents) == fieldEntity(ents, "button", "_reboot").entity_id

rowOf(d, ents, S, ip) ==
    LET primaryEnt == selectPrimaryEntity(ents, S)
        temp == sensorField(ents, S, "_device_temperature")
        rssi == sensorField(ents, S, "_rssi")
        upt  == sensorField(ents, S, "_uptime")
        fw   == firmwareOf(ents, S)
    IN  [device_id         |-> d.id,
         entity_id         |-> IF primaryEnt # NoEntity THEN primaryEnt.entity_id ELSE "",
         name              |-> Or(d.name, Or(d.model, d.id)),
         model             |-> Or(d.model, ""),
         ip                |-> ip,
         mac               |-> macOf(d),
         cloud             |-> cloudOf(ents, S),
         temperature       |-> temp.value,
         temperatureEntity |-> temp.entity,
         rssi              |-> rssi.value,
         rssiEntity        |-> rssi.entity,
         uptime            |-> upt.value,
         uptimeEntity      |-> upt.entity,
         fwUpdateEntity    |-> fw.fwUpdateEntity,
         fwUpToDate        |-> fw.fwUpToDate,
         fwUpdateAvailable |-> fw.fwUpdateAvailable,
         rebootEntity      |-> rebootOf(ents),
         configuration_url |-> Or(d.configuration_url,
                                  IF ip # "" THEN "http://" \o ip \o "/" ELSE "")]

----------------------------------------------------------------------------
(* _loadData: the dedup loop over shellyDevices *)

ipKeyOf(ip) == "ip_" \o ip

\* mutant: no check of the device id, as before version 0.3.0
seenById_unchecked(seen, d) == FALSE

seenById(seen, d) == d.id \in seen

\* mutant: the address looked up without its ip_ prefix
seenByIp_bareAddress(seen, ip) == ip # "" /\ ip \in seen

seenByIp(seen, ip) == ip # "" /\ ipKeyOf(ip) \in seen

markSeen(seen, d, ip) ==
    seen \cup {d.id} \cup (IF ip # "" THEN {ipKeyOf(ip)} ELSE {})

\* the for loop from the i-th device on, with seenDevices and rows so far
RECURSIVE rowLoop(_, _, _, _, _, _)
rowLoop(fam, ents, S, i, seen, rows) ==
    IF i > Len(fam) THEN rows
    ELSE LET d == fam[i]
             g == GroupOf(ents, d.id)
             ip == extractIP(d, g, S)
         IN  IF seenById(seen, d) THEN rowLoop(fam, ents, S, i + 1, seen, rows)
             ELSE IF seenByIp(seen, ip) THEN rowLoop(fam, ents, S, i + 1, seen, rows)
             ELSE rowLoop(fam, ents, S, i + 1, markSeen(seen, d, ip),
                          Append(rows, rowOf(d, g, S, ip)))

buildRows(devs, ents, S) == rowLoop(shellyDevices(devs, ents), ents, S, 1, {}, <<>>)

----------------------------------------------------------------------------
(* The panel element.  A handler runs to its end or to its await; a         *)
(* suspended _loadData is an element of inflight.  Its field shown is a      *)
(* history value: the rows the panel displayed when the load was requested.  *)

Errors == [device |-> "device registry unavailable",
           entity |-> "entity registry unavailable",
           rows   |-> "row building failed"]

\* _loadData up to the await: the caller has checked this._hass
startLoad(shown) ==
    /\ Len(inflight) < MaxLoads
    /\ loading' = TRUE
    /\ error' = Null
    /\ inflight' = Append(inflight, [shown |-> shown])

Without(seq, i) == SubSeq(seq, 1, i - 1) \o SubSeq(seq, i + 1, Len(seq))

\* mutant: the row set is not looked at, a load starts whenever none is running
SetHass_ignoresRows ==
    /\ hass' = [present |-> TRUE, states |-> states]
    /\ IF ~loading
       THEN startLoad(data)
       ELSE UNCHANGED <<loading, error, inflight>>
    /\ UNCHANGED <<host, data, sort, updates, reboots, timers>>

\* set hass(hass)
SetHass ==
    /\ hass' = [present |-> TRUE, states |-> states]
    /\ IF ~loading /\ Len(data) = 0
       THEN startLoad(data)
       ELSE UNCHANGED <<loading, error, inflight>>
    /\ UNCHANGED <<host, data, sort, updates, reboots, timers>>

\* _loadData after the await: both registry queries resolved
LoadResolve ==
    \E i \in 1..Len(inflight) :
        /\ data' = buildRows(devices, entities, hass.states)
        /\ loading' = FALSE
        /\ inflight' = Without(inflight, i)
        /\ UNCHANGED <<host, hass, error, sort, updates, reboots, timers>>

\* mutant: the catch block does not reset the loading flag
rejectLoad_keepsLoading(i, q) ==
    /\ error' = Errors[q]
    /\ inflight' = Without(inflight, i)
    /\ UNCHANGED <<host, hass, data, loading, sort, updates, reboots, timers>>

\* _loadData after the await: query q of load i rejected or the row building
\* threw, the catch block runs
rejectLoad(i, q) ==
    /\ error' = Errors[q]
    /\ loading' = FALSE
    /\ inflight' = Without(inflight, i)
    /\ UNCHANGED <<host, hass, data, sort, updates, reboots, timers>>

LoadReject == \E i \in 1..Len(inflight), q \in DOMAIN Errors : rejectLoad(i, q)

\* click on a rendered Update button, confirmed: _handleFirmwareUpdate to its await
ClickUpdate ==
    /\ hass.present
    /\ \E i \in 1..Len(data) :
           data[i].fwUpdateAvailable = "true" /\ data[i].fwUpdateEntity \notin {Null, ""}
    /\ updates < MaxCalls
    /\ updates' = updates + 1
    /\ UNCHANGED <<host, hass, data, loading, error, sort, inflight, reboots, timers>>

\* update.install resolved: the reload timer is set
UpdateDone ==
    /\ updates > 0
    /\ timers < MaxTimers
    /\ updates' = updates - 1
    /\ timers' = timers + 1
    /\ UNCHANGED <<host, hass, data, loading, error, sort, inflight, reboots>>

\* update.install rejected: the error is alerted
UpdateFailed ==
    /\ updates > 0
    /\ updates' = updates - 1
    /\ UNCHANGED <<host, hass, data, loading, error, sort, inflight, reboots, timers>>

\* the reload timer fires: this._data = []; this._loadData()
TimerFire ==
    /\ timers > 0
    /\ timers' = timers - 1
    /\ data' = <<>>
    /\ startLoad(data)
    /\ UNCHANGED <<host, hass, sort, updates, reboots>>

\* click on a rendered Reboot button, confirmed: _handleReboot to its await
ClickReboot ==
    /\ hass.present
    /\ \E i \in 1..Len(data) : data[i].rebootEntity \notin {Null, ""}
    /\ reboots < MaxCalls
    /\ reboots' = reboots + 1
    /\ UNCHANGED <<host, hass, data, loading, error, sort, inflight, updates, timers>>

\* button.press resolved (ok) or rejected: either way only an alert
rebootReplied(ok) ==
    /\ reboots > 0
    /\ reboots' = reboots - 1
    /\ UNCHANGED <<host, hass, data, loading, error, sort, inflight, updates, timers>>

RebootReplied == \E ok \in BOOLEAN : rebootReplied(ok)

\* _applySort and _toggleSort

\* the data-key attributes of the sortable column headers
SortKeys == {"name", "model", "ip", "mac", "cloud", "temperature", "rssi",
             "uptime", "fwUpToDate"}

\* the row fields that hold a boolean or null
BooleanKeys == {"cloud", "fwUpToDate"}

\* the primary order of the collator over the characters that row values are
\* made of: space, punctuation, digits, letters; letters differing in case
\* only are equal (sensitivity 'base')
CollationOrder == " _-:./0123456789abcdefghijklmnopqrstuvwxyz"

Rank(c) == IndexOf(CollationOrder, LowerChar(c))

\* the index of the last digit of the run of digits of s that starts at i
DigitRunEnd(s, i) ==
    CHOOSE j \in i..Len(s) :
        /\ \A k \in i..j : CharAt(s, k) \in Digits
        /\ (j = Len(s) \/ CharAt(s, j + 1) \notin Digits)

Sign(n) == IF n < 0 THEN -1 ELSE IF n > 0 THEN 1 ELSE 0

\* the collation elements of s: one per character that is no digit, its rank,
\* and one per run of digits, the value of the run (numeric: true)
CollationKey(s) ==
    LET starts == SelectSeq([i \in 1..Len(s) |-> i],
                            LAMBDA i : \/ CharAt(s, i) \notin Digits
                                       \/ i = 1
                                       \/ CharAt(s, i - 1) \notin Digits)
    IN  [n \in 1..Len(starts) |->
            IF CharAt(s, starts[n]) \in Digits
            THEN <<Rank("0"), NumVal(SubSeq(s, starts[n], DigitRunEnd(s, starts[n])))>>
            ELSE <<Rank(CharAt(s, starts[n])), 0>>]

\* the order of two sequences of collation elements: the first element that
\* differs decides, a proper prefix comes first
compareKeys(x, y) ==
    LET common == {n \in 1..Len(x) : n <= Len(y)}
        differ == {n \in common : x[n] # y[n]}
    IN  IF differ = {} THEN Sign(Len(x) - Len(y))
        ELSE LET n == CHOOSE m \in differ : \A l \in differ : m <= l
             IN  IF x[n][1] # y[n][1] THEN Sign(x[n][1] - y[n][1])
                 ELSE Sign(x[n][2] - y[n][2])

\* collator.compare(a, b)
collatorCompare(a, b) == compareKeys(CollationKey(a), CollationKey(b))

\* val(r): the string a row is sorted by
val(r, key) ==
    LET v == r[key]
    IN  IF v = Null THEN ""
        ELSE IF key \in BooleanKeys THEN (IF v = "true" THEN "1" ELSE "0")
        ELSE v

\* the comparator handed to arr.sort
sortCompare(a, b, srt) ==
    LET cmp == collatorCompare(val(a, srt.key), val(b, srt.key))
    IN  IF srt.dir = "asc" THEN cmp ELSE -cmp

\* arr.sort is stable: the place of arr[i] is behind the elements that come
\* before it by the comparator and behind the earlier elements equal to it
sortedPlace(arr, i, srt) ==
    1 + Cardinality({j \in 1..Len(arr) :
                        \/ sortCompare(arr[j], arr[i], srt) < 0
                        \/ (j < i /\ sortCompare(arr[j], arr[i], srt) = 0)})

sorted(arr, srt) ==
    [p \in 1..Len(arr) |-> arr[CHOOSE i \in 1..Len(arr) : sortedPlace(arr, i, srt) = p]]

\* mutant: the direction is ignored
applySort_ascending(arr, srt) == sorted(arr, [srt EXCEPT !.dir = "asc"])

applySort(arr, srt) == sorted(arr, srt)

\* the rows of the table that _render draws
shown == applySort(data, sort)

\* mutant: a click on another column keeps the direction
toggled_keepsDirection(srt, key) ==
    IF srt.key = key
    THEN [srt EXCEPT !.dir = IF srt.dir = "asc" THEN "desc" ELSE "asc"]
    ELSE [srt EXCEPT !.key = key]

\* this._sort after _toggleSort(key); this._sort is never null
toggled(srt, key) ==
    IF srt.key = key
    THEN [srt EXCEPT !.dir = IF srt.dir = "asc" THEN "desc" ELSE "asc"]
    ELSE [key |-> key, dir |-> "asc"]

toggleSort(key) ==
    /\ sort' = toggled(sort, key)
    /\ UNCHANGED <<host, hass, data, loading, error, inflight, updates, reboots, timers>>

\* click on a column header; the headers are drawn when there are rows
ToggleSort ==
    /\ Len(data) > 0
    /\ \E key \in SortKeys : toggleSort(key)

Next ==
    \/ SetHass
    \/ LoadResolve
    \/ LoadReject
    \/ ClickUpdate
    \/ UpdateDone
    \/ UpdateFailed
    \/ TimerFire
    \/ ClickReboot
    \/ RebootReplied
    \/ ToggleSort

\* the state the constructor leaves
Constructed ==
    /\ hass = [present |-> FALSE, states |-> <<>>]
    /\ data = <<>>
    /\ loading = FALSE
    /\ error = Null
    /\ sort = [key |-> "name", dir |-> "asc"]
    /\ inflight = <<>>
    /\ updates = 0
    /\ reboots = 0
    /\ timers = 0

\* the state after the first hass assignment: the first load is suspended
FirstLoad ==
    /\ hass = [present |-> TRUE, states |-> states]
    /\ data = <<>>
    /\ loading = TRUE
    /\ error = Null
    /\ sort = [key |-> "name", dir |-> "asc"]
    /\ inflight = <<[shown |-> <<>>]>>
    /\ updates = 0
    /\ reboots = 0
    /\ timers = 0

\* the completions of a suspended load
NextLoad == LoadResolve \/ LoadReject

----------------------------------------------------------------------------
(* Registry replies and state maps drawn as inputs *)

Device(id, manufacturer, url) ==
    [id |-> id, name |-> "", model |-> "Plus 1", manufacturer |-> manufacturer,
     configuration_url |-> url, connections |-> <<<<"mac", "AABBCC" \o id>>>>]

Entity(entity_id, device_id, platform, category, domain) ==
    [entity_id |-> entity_id, device_id |-> device_id, platform |-> platform,
     entity_category |-> category, domain |-> domain]

\* sequences of at most n elements of S
SeqsUpTo(S, n) == UNION {[1..k -> S] : k \in 0..n}

\* sequences of at most n distinct elements of S
ListsUpTo(S, n) ==
    {l \in SeqsUpTo(S, n) : \A i, j \in 1..Len(l) : i # j => l[i] # l[j]}

\* the elements of S in the order of the sequence all
SubList(all, S) == SelectSeq(all, LAMBDA e : e \in S)

\* An entity registry reply carries a domain field in every entry or in none:
\* the entity lists of L, as they are and with the field stripped
Stripped(ents) == [i \in 1..Len(ents) |-> [ents[i] EXCEPT !.domain = Null]]

Replies(L) == L \cup {Stripped(l) : l \in L}

\* the state maps over the entities of ents: each entity has no state object
\* or one of the states V[entity_id]
StateMaps(ents, V) ==
    LET ids == {ents[i].entity_id : i \in 1..Len(ents)}
    IN  UNION {{f \in [live -> UNION {V[id] : id \in live}] :
                    \A id \in live : f[id] \in V[id]}
               : live \in SUBSET ids}

----------------------------------------------------------------------------
(* SpecRows: the family filter and the dedup loop over a registry of        *)
(* several devices.  A device id names one device; a reply may list a       *)
(* device more than once.                                                    *)

RowDevices ==
    {Device("d1", "Shelly", "http://192.168.1.10/"),
     Device("d2", "SHELLY", "http://192.168.1.10:80/settings"),
     Device("d3", "Acme", "http://192.168.1.10/"),
     Device("d4", "", ""),
     Device("d5", "shelly", ""),
     Device("ip_192.168.1.10", "Shelly", "")}

RowEntities ==
    <<Entity("switch.relay", "d4", "shelly", "", "switch"),
      Entity("sensor.meter_wifi_ip", "d5", "shelly", "diagnostic", "sensor"),
      Entity("light.orphan", Null, "shelly", "", "light"),
      Entity("sensor.acme_power", "d3", "mqtt", "", "sensor")>>

RowStates ==
    [id \in {"switch.relay", "sensor.meter_wifi_ip", "sensor.acme_power"} |->
        CASE id = "switch.relay" -> "on"
          [] id = "sensor.meter_wifi_ip" -> "192.168.1.10"
          [] id = "sensor.acme_power" -> "12.5"]

InitRows ==
    /\ devices \in SeqsUpTo(RowDevices, MaxDevices)
    /\ entities \in {SubList(RowEntities, S) : S \in SUBSET Range(RowEntities)}
    /\ states = RowStates
    /\ FirstLoad

SpecRows == InitRows /\ [][NextLoad]_vars

----------------------------------------------------------------------------
(* Properties of the row set *)

\* a load has replaced the row set and no load is suspended
Loaded == ~loading /\ error = Null /\ inflight = <<>>

Family == shellyDevices(devices, entities)

\* the address the IP resolver gives for device d of the registry
ipOf(d) == extractIP(d, GroupOf(entities, d.id), hass.states)

RowsWhere(P(_)) == {k \in 1..Len(data) : P(data[k])}

\* C1: after any load, no two rows of the row set share the same non-empty ip.
C1_NoSharedIp ==
    \A i, j \in 1..Len(data) :
        (i # j /\ data[i].ip # "") => data[i].ip # data[j].ip

\* C1 witness: two family devices with different ids resolved to one address,
\* and the loaded row set has a row with it.
C1_Witness ==
    /\ Loaded
    /\ \E i, j \in 1..Len(Family) :
           /\ Family[i].id # Family[j].id
           /\ ipOf(Family[i]) # "" /\ ipOf(Family[i]) = ipOf(Family[j])
           /\ RowsWhere(LAMBDA r : r.ip = ipOf(Family[i])) # {}

\* manufacturer, lower-cased, equals 'shelly'
ManufacturerIsShelly(d) ==
    /\ Len(d.manufacturer) = 6
    /\ \A k \in 1..6 : LowerChar(CharAt(d.manufacturer, k)) = CharAt("shelly", k)

\* some entity of the registry is grouped under the id of d and has platform 'shelly'
PlatformIsShelly(d) ==
    \E k \in 1..Len(entities) :
        entities[k].device_id = d.id /\ entities[k].platform = "shelly"

\* C4: the family filter returns a subset of the devices; a device is in it iff
\* its manufacturer lower-cased is 'shelly' or an entity grouped under its id has
\* platform 'shelly'; a device satisfying neither never has a row.
C4_FamilyFilter ==
    /\ Range(Family) \subseteq Range(devices)
    /\ \A d \in Range(devices) :
           d \in Range(Family) <=> (ManufacturerIsShelly(d) \/ PlatformIsShelly(d))
    /\ \A k \in 1..Len(data) :
           \E d \in Range(devices) :
               /\ d.id = data[k].device_id
               /\ ManufacturerIsShelly(d) \/ PlatformIsShelly(d)

\* C4 witness: a loaded row set with a row for a device that is in the family by
\* manufacturer only, a row for one that is in it by platform only, and a device
\* of the registry that satisfies neither.
C4_Witness ==
    /\ Loaded
    /\ \E a, b, c \in Range(devices) :
           /\ ManufacturerIsShelly(a) /\ ~PlatformIsShelly(a)
           /\ a.manufacturer # "shelly"
           /\ RowsWhere(LAMBDA r : r.device_id = a.id) # {}
           /\ PlatformIsShelly(b) /\ ~ManufacturerIsShelly(b)
           /\ RowsWhere(LAMBDA r : r.device_id = b.id) # {}
           /\ ~ManufacturerIsShelly(c) /\ ~PlatformIsShelly(c)

\* C9: after any load, no two rows share the same device_id, also when the
\* registry lists a device id more than once.
C9_NoSharedDeviceId ==
    \A i, j \in 1..Len(data) : i # j => data[i].device_id # data[j].device_id

\* C9 witness: the registry lists a family device twice, the device has no
\* address, and the loaded row set has a row for it.
C9_Witness ==
    /\ Loaded
    /\ \E i, j \in 1..Len(Family) :
           /\ i # j /\ Family[i].id = Family[j].id
           /\ ipOf(Family[i]) = ""
           /\ RowsWhere(LAMBDA r : r.device_id = Family[i].id) # {}

\* the first position of the family list whose device resolves to address x
FirstWithIp(x) ==
    CHOOSE i \in 1..Len(Family) :
        ipOf(Family[i]) = x /\ \A j \in 1..(i - 1) : ipOf(Family[j]) # x

\* C7: when several family devices with different ids resolve to the same
\* non-empty IP, exactly one row is emitted for that IP, and it is the row of
\* the device that comes first in registry order.
C7_FirstDeviceKeepsIp ==
    Loaded =>
        \A i, j \in 1..Len(Family) :
            (/\ Family[i].id # Family[j].id
             /\ ipOf(Family[i]) # "" /\ ipOf(Family[i]) = ipOf(Family[j]))
            => LET x == ipOf(Family[i])
                   hits == RowsWhere(LAMBDA r : r.ip = x)
               IN  /\ Cardinality(hits) = 1
                   /\ \A k \in hits : data[k].device_id = Family[FirstWithIp(x)].id

\* position i of the family list is not a duplicate of an earlier position
NotDuplicate(i) ==
    \A j \in 1..(i - 1) :
        /\ Family[j].id # Family[i].id
        /\ ipOf(Family[i]) = "" \/ ipOf(Family[j]) # ipOf(Family[i])

\* C8: every family device that dedup does not remove yields exactly one row,
\* and family devices whose IP resolves to the empty string all appear, each once.
C8_OneRowPerDevice ==
    Loaded =>
        \A i \in 1..Len(Family) :
            (NotDuplicate(i) \/ ipOf(Family[i]) = "")
            => Cardinality(RowsWhere(LAMBDA r : r.device_id = Family[i].id)) = 1

----------------------------------------------------------------------------
(* SpecIP: the IP resolver over one device, its configuration_url and its   *)
(* sensors                                                                   *)

IpUrls ==
    {"", "http://192.168.1.10/", "http://shelly1.local/",
     "HTTPS://Shelly1.LOCAL:8443/index.html", "http://localhost:8123/",
     "http://0.0.0.0/", "192.168.1.11:80", "http://192.168.1.300/"}

IpEntities ==
    {Entity("sensor.plug_wifi_ip", "d1", "shelly", "diagnostic", "sensor"),
     Entity("sensor.plug_ip_address", "d1", "shelly", "diagnostic", "sensor"),
     Entity("sensor.plug_power", "d1", "shelly", "", "sensor"),
     Entity("sensor.gateway_ip", "d1", "shelly", "diagnostic", "sensor")}

IpStates ==
    [id \in {e.entity_id : e \in IpEntities} |->
        CASE id = "sensor.plug_wifi_ip" -> {"unavailable", "192.168.1.20"}
          [] id = "sensor.plug_ip_address" -> {"unavailable", "192.168.1.21"}
          [] id = "sensor.plug_power" -> {"12.5", "192.168.1.22"}
          [] OTHER -> {"unavailable", "192.168.1.23"}]

InitIP ==
    /\ devices \in {<<Device("d1", "Shelly", u)>> : u \in IpUrls}
    /\ entities \in Replies(ListsUpTo(IpEntities, MaxEnts))
    /\ states \in StateMaps(entities, IpStates)
    /\ FirstLoad

SpecIP == InitIP /\ [][NextLoad]_vars

\* C2 (as claimed): every row's ip is the empty string or has IPv4 dotted-quad
\* shape, whichever step of the IP resolver produced it, the configuration_url
\* host step included.
C2_IpIsDottedQuad ==
    \A k \in 1..Len(data) : data[k].ip = "" \/ IPv4Shape(data[k].ip)

\* C2 (amended): when the configuration_url step yields a host, the row's ip is
\* that host as the URL gives it, of IPv4 shape or not; otherwise the ip comes
\* from a sensor step and is the empty string or has IPv4 dotted-quad shape.
C2_SensorIpIsDottedQuad ==
    \A k \in 1..Len(data) :
        \A d \in Range(devices) :
            d.id = data[k].device_id =>
                IF hostOfConfigurationUrl(d.configuration_url) = ""
                THEN data[k].ip = "" \/ IPv4Shape(data[k].ip)
                ELSE data[k].ip = hostOfConfigurationUrl(d.configuration_url)

\* C2 witness: a loaded row of a device whose configuration_url names localhost,
\* with an address taken from a sensor whose state has IPv4 shape.
C2_Witness ==
    /\ Loaded
    /\ \E k \in 1..Len(data) :
           \E d \in Range(devices) :
               /\ d.id = data[k].device_id
               /\ d.configuration_url = "http://localhost:8123/"
               /\ data[k].ip # "" /\ IPv4Shape(data[k].ip)
               /\ \E e \in Range(entities) :
                      stateFor(hass.states, e.entity_id) = data[k].ip

----------------------------------------------------------------------------
(* SpecFields: the status field resolvers over one device *)

FieldEntities ==
    {Entity("update.plug_firmware_update", "d1", "shelly", "config", "update"),
     Entity("update.plug_beta_FIRMWARE_UPDATE", "d1", "shelly", "config", "update"),
     Entity("update.plug_driver", "d1", "shelly", "config", "update")}

FieldStates ==
    [id \in {e.entity_id : e \in FieldEntities} |-> {"on", "off", "unavailable", "unknown"}]

InitFields ==
    /\ devices = <<Device("d1", "Shelly", "")>>
    /\ entities \in Replies(ListsUpTo(FieldEntities, MaxEnts))
    /\ states \in StateMaps(entities, FieldStates)
    /\ FirstLoad

SpecFields == InitFields /\ [][NextLoad]_vars

\* C3: in every row fwUpdateAvailable and fwUpToDate are never both true,
\* for every state of the firmware update entity and when it has none.
C3_FirmwareFlagsExclusive ==
    \A k \in 1..Len(data) :
        ~(data[k].fwUpdateAvailable = "true" /\ data[k].fwUpToDate = "true")

\* C3 witness: a loaded row whose firmware update entity has state 'on': the
\* update is available and the firmware is not up to date.
C3_Witness ==
    /\ Loaded
    /\ \E k \in 1..Len(data) :
           /\ data[k].fwUpdateEntity # Null
           /\ stateFor(hass.states, data[k].fwUpdateEntity) = "on"
           /\ data[k].fwUpdateAvailable = "true"
           /\ data[k].fwUpToDate = "false"

----------------------------------------------------------------------------
(* SpecSelect: the primary-entity selector over one device *)

SelectEntities ==
    {Entity("light.lamp", "d1", "shelly", "", "light"),
     Entity("switch.relay", "d1", "shelly", "", "switch"),
     Entity("sensor.power", "d1", "shelly", "", "sensor"),
     Entity("cover.blind", "d1", "shelly", "", "cover")}

SelectStates == [id \in {e.entity_id : e \in SelectEntities} |-> {"on"}]

InitSelect ==
    /\ devices = <<Device("d1", "Shelly", "")>>
    /\ entities \in Replies(ListsUpTo(SelectEntities, MaxEnts))
    /\ states \in StateMaps(entities, SelectStates)
    /\ FirstLoad

SpecSelect == InitSelect /\ [][NextLoad]_vars

\* the part of an entity_id before the first '.'
DomainOf(id) == Before(id, ".")

\* the group of device d has an entity of domain dom, by its entity_id, that
\* has no entity_category and has a live state
HasLive(d, dom) ==
    \E e \in Range(GroupOf(entities, d.id)) :
        /\ DomainOf(e.entity_id) = dom
        /\ e.entity_category = ""
        /\ hasState(hass.states, e)

\* C10: for a device with a light entity and a switch entity, both without
\* entity_category and both with a live state, the primary entity selected is
\* the light one, whatever the order of the entities in the group.
C10_LightBeforeSwitch ==
    Loaded =>
        \A k \in 1..Len(data) :
            \A d \in Range(devices) :
                (d.id = data[k].device_id /\ HasLive(d, "light") /\ HasLive(d, "switch"))
                => DomainOf(data[k].entity_id) = "light"

----------------------------------------------------------------------------
(* Spec: the panel from its construction on, over a host whose registries   *)
(* and state map are one of three installations                             *)

PanelHosts ==
    {[devices |-> <<>>, entities |-> <<>>, states |-> <<>>],
     [devices  |-> <<Device("d1", "Shelly", "http://192.168.1.10/")>>,
      entities |-> <<Entity("switch.plug", "d1", "shelly", "", "switch"),
                     Entity("update.plug_firmware_update", "d1", "shelly", "config", "update"),
                     Entity("button.plug_reboot", "d1", "shelly", "config", "button")>>,
      states   |-> [id \in {"switch.plug", "update.plug_firmware_update"} |-> "on"]],
     [devices  |-> <<Device("d1", "Shelly", "http://192.168.1.10/"),
                     Device("d2", "SHELLY", "http://192.168.1.10:80/settings"),
                     Device("d5", "shelly", "")>>,
      entities |-> <<Entity("update.meter_firmware_update", "d5", "shelly", "config", "update"),
                     Entity("button.meter_reboot", "d5", "shelly", "config", "button")>>,
      states   |-> [id \in {"update.meter_firmware_update"} |-> "off"]]}

Init ==
    /\ \E h \in PanelHosts :
           devices = h.devices /\ entities = h.entities /\ states = h.states
    /\ Constructed

Spec == Init /\ [][Next]_vars

\* C5: at most one load is in flight at any time; a load request that arrives
\* while a load is outstanding is ignored and issues no registry queries.
C5_OneLoadInFlight == Len(inflight) <= 1

\* C6: when a registry query of a load rejects, the row set shown after the
\* failure is the row set that was shown before that load was requested, error
\* is set to a message and loading is false, however the load was requested.
C6_FailureKeepsRows ==
    [][\A i \in 1..Len(inflight), q \in DOMAIN Errors :
          rejectLoad(i, q) =>
              /\ data' = inflight[i].shown
              /\ error' # Null
              /\ loading' = FALSE]_vars

----------------------------------------------------------------------------
(* SpecPrimary: the primary-entity selector over one device with several    *)
(* switch channels and entities that have an entity_category                *)

PrimaryEntities ==
    {Entity("switch.foo_1", "d1", "shelly", "", "switch"),
     Entity("switch.foo_2", "d1", "shelly", "", "switch"),
     Entity("switch.foo", "d1", "shelly", "", "switch"),
     Entity("switch.channel_1_out", "d1", "shelly", "", "switch"),
     Entity("sensor.foo_rssi", "d1", "shelly", "diagnostic", "sensor"),
     Entity("light.foo_backlight", "d1", "shelly", "config", "light")}

PrimaryStates == [id \in {e.entity_id : e \in PrimaryEntities} |-> {"on"}]

InitPrimary ==
    /\ devices = <<Device("d1", "Shelly", "")>>
    /\ entities \in Replies(ListsUpTo(PrimaryEntities, MaxEnts))
    /\ states \in StateMaps(entities, PrimaryStates)
    /\ FirstLoad

SpecPrimary == InitPrimary /\ [][NextLoad]_vars

\* the entities of device d's group without entity_category
Uncategorized(d) ==
    SelectSeq(GroupOf(entities, d.id), LAMBDA e : e.entity_category = "")

\* dom is the winning domain of device d: the earliest domain of the priority
\* order that an entity of the group without entity_category has, by its
\* entity_id
Winning(d, dom) ==
    \E k \in 1..Len(priorityDomains) :
        /\ priorityDomains[k] = dom
        /\ \E e \in Range(Uncategorized(d)) : DomainOf(e.entity_id) = dom
        /\ \A j \in 1..(k - 1) : \A e \in Range(Uncategorized(d)) :
               DomainOf(e.entity_id) # priorityDomains[j]

\* the entities of domain dom of device d that can be primary and have a live
\* state, in group order
LiveOf(d, dom) ==
    SelectSeq(Uncategorized(d),
              LAMBDA e : DomainOf(e.entity_id) = dom /\ hasState(hass.states, e))

\* the entity_id has no channel suffix: it neither ends in _<digits> nor
\* contains channel_<digits>
Unqualified(e) == ~ChannelSuffix(e.entity_id) /\ ~ChannelInfix(e.entity_id)

\* C11: within the winning domain, when several entities have a live state,
\* the selector returns the first of them whose entity_id neither ends in
\* _<digits> nor contains channel_<digits>, in any group order, and the first
\* of them when none qualifies.
C11_ChannelSuffixAvoided ==
    Loaded =>
        \A k \in 1..Len(data) : \A d \in Range(devices) :
            \A dom \in Range(priorityDomains) :
                LET live == LiveOf(d, dom)
                IN  (d.id = data[k].device_id /\ Winning(d, dom) /\ Len(live) >= 2)
                    => data[k].entity_id =
                           Find(live, {e \in Range(live) : Unqualified(e)},
                                live[1]).entity_id

\* the entity of device d's group that the row names, NoEntity for none
NamedBy(row, d) ==
    Find(GroupOf(entities, d.id),
         {e \in Range(GroupOf(entities, d.id)) : e.entity_id = row.entity_id},
         NoEntity)

\* C12: whenever a device has at least one entity without entity_category,
\* the primary entity selected for it has no entity_category, even if entities
\* with a category come earlier in the group or alone have a live state.
C12_PrimaryHasNoCategory ==
    Loaded =>
        \A k \in 1..Len(data) : \A d \in Range(devices) :
            (d.id = data[k].device_id /\ Len(Uncategorized(d)) > 0)
            => /\ NamedBy(data[k], d) # NoEntity
               /\ NamedBy(data[k], d).entity_category = ""

\* a loaded row whose device has a categorized entity first in its group, the
\* categorized entities alone have a live state, and an entity without
\* category is selected
C12_Witness ==
    /\ Loaded
    /\ \E k \in 1..Len(data) : \E d \in Range(devices) :
           LET g == GroupOf(entities, d.id)
           IN  /\ d.id = data[k].device_id
               /\ Len(g) >= 2
               /\ g[1].entity_category # ""
               /\ hasState(hass.states, g[1])
               /\ \A e \in Range(Uncategorized(d)) : ~hasState(hass.states, e)
               /\ Len(Uncategorized(d)) > 0
               /\ NamedBy(data[k], d).entity_category = ""

\* C20: the selector returns an entity whenever the device has at least one
\* entity: the first entity of the unfiltered group when every entity has an
\* entity_category; it returns none only for an empty group.
C20_SelectorReturnsAnEntity ==
    Loaded =>
        \A k \in 1..Len(data) : \A d \in Range(devices) :
            LET g == GroupOf(entities, d.id)
            IN  d.id = data[k].device_id =>
                    /\ Len(g) > 0 => NamedBy(data[k], d) # NoEntity
                    /\ (Len(g) > 0 /\ Len(Uncategorized(d)) = 0)
                           => data[k].entity_id = g[1].entity_id
                    /\ Len(g) = 0 <=> data[k].entity_id = ""

\* a loaded row whose device has several entities, each with an
\* entity_category, and the first of the group is selected
C20_Witness ==
    /\ Loaded
    /\ \E k \in 1..Len(data) : \E d \in Range(devices) :
           LET g == GroupOf(entities, d.id)
           IN  /\ d.id = data[k].device_id
               /\ Len(g) >= 2
               /\ Len(Uncategorized(d)) = 0
               /\ data[k].entity_id = g[1].entity_id

----------------------------------------------------------------------------
(* The configuration_url step against the sensor steps, under SpecIP *)

\* the host component of each configuration_url drawn that has one
HostOfUrl ==
    [u \in IpUrls \ {""} |->
        CASE u = "http://192.168.1.10/" -> "192.168.1.10"
          [] u = "http://shelly1.local/" -> "shelly1.local"
          [] u = "HTTPS://Shelly1.LOCAL:8443/index.html" -> "shelly1.local"
          [] u = "http://localhost:8123/" -> "localhost"
          [] u = "http://0.0.0.0/" -> "0.0.0.0"
          [] u = "192.168.1.11:80" -> "192.168.1.11"
          [] u = "http://192.168.1.300/" -> "192.168.1.300"]

\* C13: when the configuration_url of a device has a host that is neither
\* localhost nor 0.0.0.0, the resolved ip is that host, whatever address the
\* state of a sensor entity of the device holds.
C13_UrlHostWins ==
    Loaded =>
        \A k \in 1..Len(data) : \A d \in Range(devices) :
            (/\ d.id = data[k].device_id
             /\ d.configuration_url \in DOMAIN HostOfUrl
             /\ HostOfUrl[d.configuration_url] \notin {"localhost", "0.0.0.0"})
            => data[k].ip = HostOfUrl[d.configuration_url]

\* a loaded row whose ip is the host of the configuration_url while an
\* IP-pattern sensor of the device holds another address of IPv4 shape
C13_Witness ==
    /\ Loaded
    /\ \E k \in 1..Len(data) : \E d \in Range(devices) :
           /\ d.id = data[k].device_id
           /\ d.configuration_url = "http://192.168.1.10/"
           /\ data[k].ip = "192.168.1.10"
           /\ \E e \in Range(GroupOf(entities, d.id)) :
                  /\ e.domain = "sensor"
                  /\ ipPattern(1, e.entity_id)
                  /\ stateFor(hass.states, e.entity_id) = "192.168.1.20"

----------------------------------------------------------------------------
(* SpecSort: header clicks over the rows of several devices, some of them   *)
(* with equal values in a column                                            *)

SortDevice(id, name, model, url) ==
    [Device(id, "Shelly", url) EXCEPT !.name = name, !.model = model]

SortDevices ==
    {SortDevice("d1", "Plug 10", "Plus 1PM", "http://192.168.1.10/"),
     SortDevice("d2", "plug 2", "Plus 1", "http://192.168.1.9/"),
     SortDevice("d3", "Plug 2", "Plus 1", "http://192.168.1.100/"),
     SortDevice("d4", "Boiler", "Pro 4PM", "")}

SortEntities ==
    <<Entity("sensor.d1_rssi", "d1", "shelly", "diagnostic", "sensor"),
      Entity("sensor.d2_rssi", "d2", "shelly", "diagnostic", "sensor"),
      Entity("binary_sensor.d1_cloud", "d1", "shelly", "diagnostic", "binary_sensor"),
      Entity("binary_sensor.d3_cloud", "d3", "shelly", "diagnostic", "binary_sensor")>>

SortStates ==
    [id \in {SortEntities[i].entity_id : i \in 1..Len(SortEntities)} |->
        CASE id = "sensor.d1_rssi" -> "-55"
          [] id = "sensor.d2_rssi" -> "-70"
          [] id = "binary_sensor.d1_cloud" -> "on"
          [] id = "binary_sensor.d3_cloud" -> "off"]

InitSort ==
    /\ devices \in ListsUpTo(SortDevices, MaxDevices)
    /\ entities \in Replies({SortEntities})
    /\ states = SortStates
    /\ FirstLoad

NextSort == LoadResolve \/ LoadReject \/ ToggleSort

SpecSort == InitSort /\ [][NextSort]_vars

Reverse(seq) == [i \in 1..Len(seq) |-> seq[Len(seq) + 1 - i]]

\* no two rows have values in column key that the collator takes for equal
DistinctIn(rows, key) ==
    \A i, j \in 1..Len(rows) :
        i # j => collatorCompare(val(rows[i], key), val(rows[j], key)) # 0

\* the rows that _render draws after a click on the header of column key
shownAfterClick(key) == applySort(data, toggled(sort, key))

\* C14 (as claimed): for any row set and any column, the second of two clicks
\* on the column shows the rows in exactly the reverse of the order the first
\* click showed, also when several rows have equal values in the column.
C14_SecondClickReverses ==
    \A key \in SortKeys :
        (Len(data) > 0 /\ sort.key = key) => shownAfterClick(key) = Reverse(shown)

\* C14 (amended): when no two rows have equal values in the column, the second
\* of two clicks on the column shows the rows in exactly the reverse of the
\* order the first click showed.
C14_DistinctValuesReverse ==
    \A key \in SortKeys :
        (Len(data) > 0 /\ sort.key = key /\ DistinctIn(data, key))
        => shownAfterClick(key) = Reverse(shown)

\* three rows without equal values in a column other than name, shown in an
\* order other than that of the row set after a second click on the column
C14_Witness ==
    /\ Loaded
    /\ Len(data) >= 3
    /\ sort.key # "name"
    /\ sort.dir = "desc"
    /\ DistinctIn(data, sort.key)
    /\ shown # data
    /\ shown # Reverse(data)

\* C15: the sort state is one (column, direction) pair; a click on the active
\* column flips the direction and keeps the column, a click on another column
\* makes it the active column with direction ascending, whatever the direction
\* was before.
C15_ToggleFlipsOrResets ==
    [][\A key \in SortKeys :
          toggleSort(key) =>
              /\ sort' \in [key : SortKeys, dir : {"asc", "desc"}]
              /\ sort'.key = key
              /\ (sort.key = key => sort'.dir # sort.dir)
              /\ (sort.key # key => sort'.dir = "asc")]_vars

\* rows are shown descending by a column other than that of the constructor:
\* the column was clicked while another one was active, then clicked again
C15_Witness ==
    /\ Len(data) > 0
    /\ sort.key = "rssi"
    /\ sort.dir = "desc"

----------------------------------------------------------------------------
(* _render: formatRSSI *)

\* the number of leading digits of s
LeadingDigits(s) ==
    Cardinality({n \in 1..Len(s) : \A k \in 1..n : CharAt(s, k) \in Digits})

\* parseInt(s) for a string without leading white space: an optional sign and
\* the digits up to the first character that is none; nan when there is no digit
parseInt(s) ==
    LET signed == Len(s) > 0 /\ CharAt(s, 1) \in {"-", "+"}
        body   == IF signed THEN SubSeq(s, 2, Len(s)) ELSE s
        n      == LeadingDigits(body)
        mag    == NumVal(SubSeq(body, 1, n))
    IN  IF n = 0 THEN [nan |-> TRUE, n |-> 0]
        ELSE [nan |-> FALSE, n |-> IF signed /\ CharAt(s, 1) = "-" THEN -mag ELSE mag]

\* mutant: the boundary values fall in the lower tier
rssiQuality_strict(rssi) ==
    LET v == parseInt(rssi)
    IN  IF rssi = Null \/ rssi = "" THEN "none"
        ELSE IF ~v.nan /\ v.n > -50 THEN "excellent"
        ELSE IF ~v.nan /\ v.n > -60 THEN "good"
        ELSE IF ~v.nan /\ v.n > -70 THEN "fair"
        ELSE "poor"

\* the quality mark formatRSSI puts before the reading: green, yellow, orange
\* or red circle, none for the dash; a comparison with NaN is false
rssiQuality(rssi) ==
    LET v == parseInt(rssi)
    IN  IF rssi = Null \/ rssi = "" THEN "none"
        ELSE IF ~v.nan /\ v.n >= -50 THEN "excellent"
        ELSE IF ~v.nan /\ v.n >= -60 THEN "good"
        ELSE IF ~v.nan /\ v.n >= -70 THEN "fair"
        ELSE "poor"

----------------------------------------------------------------------------
(* SpecRssi: one device whose RSSI sensors hold readings around the tier    *)
(* boundaries                                                               *)

RssiEntities ==
    {Entity("sensor.plug_rssi", "d1", "shelly", "diagnostic", "sensor"),
     Entity("sensor.plug_ap_RSSI", "d1", "shelly", "diagnostic", "sensor")}

\* the integer readings drawn, with their values
Readings ==
    [s \in {"-40", "-49", "-50", "-51", "-55", "-59", "-60", "-61", "-65",
            "-69", "-70", "-71", "-80", "0"} |->
        CASE s = "-40" -> -40 [] s = "-49" -> -49 [] s = "-50" -> -50
          [] s = "-51" -> -51 [] s = "-55" -> -55 [] s = "-59" -> -59
          [] s = "-60" -> -60 [] s = "-61" -> -61 [] s = "-65" -> -65
          [] s = "-69" -> -69 [] s = "-70" -> -70 [] s = "-71" -> -71
          [] s = "-80" -> -80 [] s = "0" -> 0]

RssiStates ==
    [id \in {e.entity_id : e \in RssiEntities} |->
        DOMAIN Readings \cup {"-60.5", "weak", "unavailable"}]

InitRssi ==
    /\ devices = <<Device("d1", "Shelly", "")>>
    /\ entities \in Replies(ListsUpTo(RssiEntities, MaxEnts))
    /\ states \in StateMaps(entities, RssiStates)
    /\ FirstLoad

SpecRssi == InitRssi /\ [][NextLoad]_vars

\* C16: the RSSI banding of an integer reading v: v >= -50 gives the best
\* tier, -60 <= v < -50 the good tier, -70 <= v < -60 the fair tier and
\* v < -70 the poor tier; -50, -60 and -70 fall in the better adjacent tier.
C16_RssiBands ==
    \A k \in 1..Len(data) :
        data[k].rssi \in DOMAIN Readings =>
            LET v == Readings[data[k].rssi]
            IN  rssiQuality(data[k].rssi) =
                    (IF v >= -50 THEN "excellent"
                     ELSE IF -60 <= v /\ v < -50 THEN "good"
                     ELSE IF -70 <= v /\ v < -60 THEN "fair"
                     ELSE "poor")

\* a loaded row whose reading is the boundary value -60, marked good
C16_Witness ==
    /\ Loaded
    /\ \E k \in 1..Len(data) :
           data[k].rssi = "-60" /\ rssiQuality(data[k].rssi) = "good"

----------------------------------------------------------------------------
(* Commands and the reload that follows them, under Spec *)

\* C17: the timer of a full reload is set when a command (update.install or
\* button.press) has succeeded and only then; a command that fails sets no
\* timer, starts no load and leaves the row set unchanged.
C17_ReloadIffCommandSucceeded ==
    [][/\ UpdateDone => timers' = timers + 1
       /\ rebootReplied(TRUE) => timers' = timers + 1
       /\ (UpdateFailed \/ rebootReplied(FALSE)) =>
              timers' = timers /\ inflight' = inflight /\ data' = data]_vars

----------------------------------------------------------------------------
(* The domain of an entity, under SpecSelect *)

\* the entity list with the domain of every entry taken from its entity_id
DomainFromId(ents) ==
    [i \in 1..Len(ents) |-> [ents[i] EXCEPT !.domain = DomainOf(ents[i].entity_id)]]

\* C18: the domain that the selector and the field resolvers compare is the
\* part of the entity_id before the first '.', not a domain field of the
\* registry entry: the rows are those that the entries give with that part as
\* their domain, whether or not the entries carry a domain field.
C18_DomainFromEntityId ==
    Loaded => data = buildRows(devices, DomainFromId(entities), hass.states)

----------------------------------------------------------------------------
(* Entities without a device, under SpecRows *)

\* the entities of the reply that name a device
Owned(ents) == SelectSeq(ents, LAMBDA e : e.device_id # Null)

\* C19: an entity whose device_id is null belongs to no group: it is in the
\* entity list of no device, for the family test, the primary entity and the
\* field resolvers alike, so the rows are those of the reply without it.
C19_OrphanInNoGroup ==
    /\ \A d \in Range(devices) : \A e \in Range(GroupOf(entities, d.id)) :
           e.device_id # Null
    /\ Loaded =>
           /\ data = buildRows(devices, Owned(entities), hass.states)
           /\ \A k \in 1..Len(data) : \A e \in Range(entities) :
                  e.device_id = Null => data[k].entity_id # e.entity_id

\* a loaded reply with a shelly-platform entity without a device and a device
\* of another manufacturer none of whose entities is of the shelly platform:
\* the device has no row, an other device has one
C19_Witness ==
    /\ Loaded
    /\ Len(data) > 0
    /\ \E e \in Range(entities) : e.device_id = Null /\ e.platform = "shelly"
    /\ \E d \in Range(devices) :
           /\ ~isShellyManufacturer(d)
           /\ \E e \in Range(entities) : e.device_id = d.id
           /\ \A k \in 1..Len(data) : data[k].device_id # d.id

----------------------------------------------------------------------------
(* The domain priority, under SpecSelect *)

\* C21: the primary entity selected belongs to the earliest domain of the
\* priority order that has an entity without entity_category: an entity of an
\* earlier domain without live state is preferred to an entity of a later
\* domain with a live state.
C21_EarliestDomainWins ==
    Loaded =>
        \A k \in 1..Len(data) : \A d \in Range(devices) :
            \A dom \in Range(priorityDomains) :
                (d.id = data[k].device_id /\ Winning(d, dom))
                => DomainOf(data[k].entity_id) = dom

----------------------------------------------------------------------------
(* A configuration_url that names the host itself, under SpecIP *)

\* C22: a configuration_url whose host is localhost or 0.0.0.0 counts as no
\* configuration_url for the IP resolver: the ip is what the sensor steps give
\* for the device without the url, the state of IPv4 shape of a sensor of the
\* device or else the empty string, and the load raises no error.
C22_LocalHostIsNoHost ==
    Loaded =>
        \A k \in 1..Len(data) : \A d \in Range(devices) :
            (/\ d.id = data[k].device_id
             /\ d.configuration_url \in DOMAIN HostOfUrl
             /\ HostOfUrl[d.configuration_url] \in {"localhost", "0.0.0.0"})
            => /\ data[k].ip = extractIP([d EXCEPT !.configuration_url = ""],
                                         GroupOf(entities, d.id), hass.states)
               /\ \/ data[k].ip = ""
                  \/ /\ IPv4Shape(data[k].ip)
                     /\ \E e \in Range(GroupOf(entities, d.id)) :
                            stateFor(hass.states, e.entity_id) = data[k].ip
               /\ error = Null

\* a loaded row of a device whose configuration_url names 0.0.0.0, with the
\* address of its wifi_ip sensor
C22_Witness ==
    /\ Loaded
    /\ \E k \in 1..Len(data) : \E d \in Range(devices) :
           /\ d.id = data[k].device_id
           /\ d.configuration_url = "http://0.0.0.0/"
           /\ data[k].ip = "192.168.1.20"
           /\ stateFor(hass.states, "sensor.plug_wifi_ip") = "192.168.1.20"

----------------------------------------------------------------------------
(* The pattern step of the IP resolver, under SpecIP *)

\* the configuration_url step yields nothing for device d
NoUrlHost(d) ==
    \/ d.configuration_url = ""
    \/ HostOfUrl[d.configuration_url] \in {"localhost", "0.0.0.0"}

\* entity e is a sensor that matches the k-th pattern and has a live state
\* that is not unknown or unavailable and has IPv4 shape
PatternHit(e, k) ==
    /\ DomainOf(e.entity_id) = "sensor"
    /\ ipPattern(k, e.entity_id)
    /\ usable(stateFor(hass.states, e.entity_id))
    /\ IPv4Shape(stateFor(hass.states, e.entity_id))

\* the first hit of the group g, by pattern priority and then by group order
FirstHit(g) ==
    LET k == CHOOSE n \in 1..4 :
                 /\ \E e \in Range(g) : PatternHit(e, n)
                 /\ \A m \in 1..(n - 1) : \A e \in Range(g) : ~PatternHit(e, m)
    IN  Find(g, {e \in Range(g) : PatternHit(e, k)}, NoEntity)

\* C23: when the configuration_url step yields nothing, the ip is the state of
\* the first sensor entity, by pattern priority and then by group order, that
\* matches the pattern and has a usable state of IPv4 shape; a matching entity
\* with an unusable state does not hide a later entity matching the pattern.
C23_FirstUsablePatternMatch ==
    Loaded =>
        \A k \in 1..Len(data) : \A d \in Range(devices) :
            LET g == GroupOf(entities, d.id)
            IN  (/\ d.id = data[k].device_id
                 /\ NoUrlHost(d)
                 /\ \E e \in Range(g) : \E n \in 1..4 : PatternHit(e, n))
                => data[k].ip = stateFor(hass.states, FirstHit(g).entity_id)

----------------------------------------------------------------------------
(* SpecName: the IP resolver over one device whose name may hold an address *)

\* the display names drawn, with the dotted quad each contains, "" for none
NameQuads ==
    [n \in {"", "Plug", "Shelly 192.168.1.50", "10.0.0.7 boiler"} |->
        CASE n = "Shelly 192.168.1.50" -> "192.168.1.50"
          [] n = "10.0.0.7 boiler" -> "10.0.0.7"
          [] OTHER -> ""]

NameUrls == {"", "http://192.168.1.10/", "http://localhost:8123/"}

InitName ==
    /\ devices \in {<<SortDevice("d1", n, "Plus 1", u)>> :
                        n \in DOMAIN NameQuads, u \in NameUrls}
    /\ entities \in Replies(ListsUpTo(IpEntities, MaxEnts))
    /\ states \in StateMaps(entities, IpStates)
    /\ FirstLoad

SpecName == InitName /\ [][NextLoad]_vars

\* no sensor of the group g has a live state of IPv4 shape
NoSensorAddress(g) ==
    \A e \in Range(g) :
        DomainOf(e.entity_id) = "sensor" =>
            LET st == stateFor(hass.states, e.entity_id)
            IN  st = Null \/ ~IPv4Shape(st)

\* C24: when the configuration_url step and both sensor steps yield no
\* address, the ip is the dotted quad contained in the display name of the
\* device, and the empty string only when the name contains none.
C24_NameFallback ==
    Loaded =>
        \A k \in 1..Len(data) : \A d \in Range(devices) :
            (/\ d.id = data[k].device_id
             /\ NoUrlHost(d)
             /\ NoSensorAddress(GroupOf(entities, d.id)))
            => data[k].ip = NameQuads[d.name]

----------------------------------------------------------------------------
(* SpecCloud: the cloud field over one device *)

CloudEntities ==
    {Entity("binary_sensor.plug_cloud", "d1", "shelly", "diagnostic", "binary_sensor"),
     Entity("switch.plug_cloud", "d1", "shelly", "config", "switch"),
     Entity("binary_sensor.plug_overheating", "d1", "shelly", "diagnostic", "binary_sensor"),
     Entity("sensor.plug_CLOUD", "d1", "shelly", "diagnostic", "sensor")}

CloudStates == [id \in {e.entity_id : e \in CloudEntities} |-> {"on", "off", "unavailable"}]

InitCloud ==
    /\ devices = <<Device("d1", "Shelly", "")>>
    /\ entities \in Replies(ListsUpTo(CloudEntities, MaxEnts))
    /\ states \in StateMaps(entities, CloudStates)
    /\ FirstLoad

SpecCloud == InitCloud /\ [][NextLoad]_vars

\* the entities of the group g of an accepted domain whose entity_id ends in
\* _cloud, in group order
CloudCandidates(g) ==
    SelectSeq(g, LAMBDA e : /\ DomainOf(e.entity_id) \in {"binary_sensor", "switch"}
                            /\ EndsWithI(e.entity_id, "_cloud"))

\* C25: the cloud field is true when the first binary_sensor or switch entity
\* whose entity_id ends in _cloud has state on, false when it has any other
\* state, and unknown when the device has no such entity.
C25_CloudThreeValued ==
    Loaded =>
        \A k \in 1..Len(data) : \A d \in Range(devices) :
            LET c  == CloudCandidates(GroupOf(entities, d.id))
                st == stateFor(hass.states, c[1].entity_id)
            IN  d.id = data[k].device_id =>
                    /\ Len(c) = 0 => data[k].cloud = Null
                    /\ (Len(c) > 0 /\ st = "on") => data[k].cloud = "true"
                    /\ (Len(c) > 0 /\ st \notin {"on", Null}) => data[k].cloud = "false"

----------------------------------------------------------------------------
(* The telemetry fields, under SpecRssi *)

\* what the first sensor of the group g whose entity_id ends in suffix gives:
\* its state string, Null when there is no such sensor, when it has no live
\* state and when its state is unknown or unavailable
FirstSensorState(g, suffix) ==
    LET m  == SelectSeq(g, LAMBDA e : /\ DomainOf(e.entity_id) = "sensor"
                                      /\ EndsWithI(e.entity_id, suffix))
        st == stateFor(hass.states, m[1].entity_id)
    IN  IF Len(m) = 0 THEN Null
        ELSE IF st \in {Null, "unknown", "unavailable"} THEN Null
        ELSE st

\* C26: temperature, rssi and uptime of a row are absent when the first
\* matching sensor entity is missing, has no live state or has state unknown
\* or unavailable, and carry the state string of that entity otherwise; only
\* the first matching entity in group order is consulted.
C26_TelemetryFromFirstSensor ==
    Loaded =>
        \A k \in 1..Len(data) : \A d \in Range(devices) :
            LET g == GroupOf(entities, d.id)
            IN  d.id = data[k].device_id =>
                    /\ data[k].temperature = FirstSensorState(g, "_device_temperature")
                    /\ data[k].rssi = FirstSensorState(g, "_rssi")
                    /\ data[k].uptime = FirstSensorState(g, "_uptime")

----------------------------------------------------------------------------
(* The error status after a load, under Spec *)

\* C27: after a load that completes successfully the error status is absent:
\* no error of another load is displayed next to its rows, under every
\* interleaving of load starts and completions.
C27_SuccessShowsNoError ==
    [][LoadResolve => error' = Null]_vars

----------------------------------------------------------------------------
(* The visited set of the dedup loop, under SpecRows *)

\* C28: a family device is left out of the row set only if an earlier device
\* in registry order has its device id or resolved to its non-empty IP: the
\* device-id keys and the IP keys of the visited set do not collide, so a
\* device whose id is the text of the IP key of another device is not left out.
C28_OmittedOnlyAsDuplicate ==
    Loaded =>
        \A i \in 1..Len(Family) :
            RowsWhere(LAMBDA r : r.device_id = Family[i].id) = {}
            => \E j \in 1..(i - 1) :
                   \/ Family[j].id = Family[i].id
                   \/ ipOf(Family[i]) # "" /\ ipOf(Family[j]) = ipOf(Family[i])

----------------------------------------------------------------------------
(* The hass assignment, under Spec *)

\* C29: a hass assignment starts a load if and only if the loading flag is
\* false and the row set is empty: after a successful load without rows every
\* hass assignment starts another load, and while the row set is not empty no
\* hass assignment starts a load or changes the rows.
C29_HassLoadsIffIdleAndEmpty ==
    [][SetHass =>
          /\ (inflight' = Append(inflight, [shown |-> data]) /\ loading')
                 <=> (~loading /\ Len(data) = 0)
          /\ (loading \/ Len(data) > 0) => inflight' = inflight /\ loading' = loading
          /\ data' = data]_vars

\* a load has completed successfully without rows and the hass object is set:
\* the next hass assignment starts another load
C29_Witness ==
    /\ hass.present
    /\ ~loading
    /\ error = Null
    /\ inflight = <<>>
    /\ data = <<>>
    /\ devices = <<>>

----------------------------------------------------------------------------
(* SpecFair: the panel when the registry queries of every load settle: a     *)
(* suspended _loadData is resumed, in its catch block or after its await.    *)

SpecFair == Spec /\ WF_vars(LoadReject \/ LoadResolve)

\* C30: every load that starts ends with loading false when its registry
\* queries settle: the panel does not stay in the loading state forever,
\* whether the load succeeds, a query rejects or the row building throws.
C30_LoadingEnds == loading ~> ~loading

\* a load has ended in the catch block after the row building threw, and
\* loading is false
C30_Witness ==
    /\ hass.present
    /\ ~loading
    /\ inflight = <<>>
    /\ error = Errors.rows

====
